---------------------------- MODULE Spec2Model ----------------------------
(***************************************************************************)
(* A model of the disk-persisted cache of cache.go: New (open or load),    *)
(* Cache.Set (rewrite the file) and Cache.Get (read, or delete on expiry). *)
(* The backing file is a sequence of bytes; the gob encodings of the       *)
(* metadata and of the payload are modelled as small tagged byte           *)
(* sequences that keep what the claims depend on: gob omits a struct field *)
(* that holds its zero value, ends a struct with a zero byte, and a        *)
(* decoder leaves an omitted field of the target as it was.                *)
(***************************************************************************)
EXTENDS Integers, Sequences, FiniteSets, TLC

(***************************************************************************)
(* Bounds of the model.                                                    *)
(***************************************************************************)
\* the clock runs from 0 to MaxTime
MaxTime == 2
\* the longest item sequence passed to Set
MaxLen == 1
\* the I/O operations that may fail in one behaviour
MaxFaults == 1

Threads == {"t1", "t2"}
Handles == {"h1", "h2"}
\* the values of an item (T)
Elems == {1, 2}
\* expiry durations passed to New: 0 is "never expires"
Durations == {0, 1}
\* identifiers passed to New, as strings of bytes
Ids == {<<97>>}

Min(a, b) == IF a < b THEN a ELSE b

ItemSeqs == UNION {[1..n -> Elems] : n \in 0..MaxLen}

(***************************************************************************)
(* encoding/binary: the 4-byte little-endian header.                       *)
(***************************************************************************)
PutUint32(n) ==
  << n % 256, (n \div 256) % 256, (n \div 65536) % 256, (n \div 16777216) % 256 >>

Uint32(hb) == hb[1] + 256 * hb[2] + 65536 * hb[3] + 16777216 * hb[4]

(***************************************************************************)
(* encoding/gob, as far as the cache uses it.  A value is sent as a type   *)
(* tag followed by its fields.  A struct's fields are sent as (delta of    *)
(* the field number, value) pairs, a field holding its zero value is not   *)
(* sent, and a zero delta ends the struct.  A time.Time is sent through    *)
(* its binary marshaller: a version byte and the instant, also when the    *)
(* instant is the clock's 0 (time.Now() is never the zero Time).           *)
(***************************************************************************)
GobCacheType == 65
GobSliceType == 66
TimeVersion == 1

\* Encoder.Encode(c) of Set: Identifier, Expire, Expiry (the lock is unexported)
EncodeCache(c) ==
  LET idf == IF c.Identifier = << >> THEN << >>
             ELSE <<1, Len(c.Identifier)>> \o c.Identifier
      exf == IF c.Expire THEN <<1, 1>> ELSE << >>
      tmf == <<(IF c.Expire THEN 1 ELSE 2), TimeVersion, c.Expiry>>
  IN  <<GobCacheType>> \o idf \o exf \o tmf \o <<0>>

\* File.Read(b) with len(b) = n at offset off: the count of bytes read
ReadCount(data, off, n) == IF off >= Len(data) THEN 0 ELSE Min(n, Len(data) - off)

\* its error: io.EOF exactly when n > 0 and nothing is left
ReadEOF(data, off, n) == n > 0 /\ ReadCount(data, off, n) = 0

\* byte i of b after the read: b came from make() filled with zeros, and only
\* the bytes the file holds were stored in it
ReadByte(data, off, i) == IF off + i <= Len(data) THEN data[off + i] ELSE 0

\* the read of the four header bytes
FileRead(data, off, n) ==
  [eof |-> ReadEOF(data, off, n),
   n   |-> ReadCount(data, off, n),
   buf |-> [i \in 1..n |-> ReadByte(data, off, i)]]

\* the fields of a struct message in the n bytes read at offset off, from
\* position i on; f is the last field seen
RECURSIVE DecodeFields(_, _, _, _, _, _)
DecodeFields(data, off, n, i, f, c) ==
  IF i > n THEN [ok |-> FALSE, c |-> c]
  ELSE IF ReadByte(data, off, i) = 0 THEN [ok |-> TRUE, c |-> c]
  ELSE LET fld == f + ReadByte(data, off, i)
           nxt == ReadByte(data, off, i + 1)
       IN
    CASE fld = 1 ->
           IF i + 1 > n \/ i + 1 + nxt > n
           THEN [ok |-> FALSE, c |-> c]
           ELSE DecodeFields(data, off, n, i + 2 + nxt, fld,
                  [c EXCEPT !.Identifier =
                     [j \in 1..nxt |-> ReadByte(data, off, i + 1 + j)]])
      [] fld = 2 ->
           IF i + 1 > n THEN [ok |-> FALSE, c |-> c]
           ELSE DecodeFields(data, off, n, i + 2, fld, [c EXCEPT !.Expire = (nxt # 0)])
      [] fld = 3 ->
           IF i + 2 > n \/ nxt # TimeVersion
           THEN [ok |-> FALSE, c |-> c]
           ELSE DecodeFields(data, off, n, i + 3, fld,
                  [c EXCEPT !.Expiry = ReadByte(data, off, i + 2)])
      [] OTHER -> [ok |-> FALSE, c |-> c]

\* Decoder.Decode(c) of New on the n bytes read at offset off: the fields sent
\* overwrite those of c, the others stay
DecodeCache(data, off, n, c) ==
  IF n = 0 \/ ReadByte(data, off, 1) # GobCacheType THEN [ok |-> FALSE, c |-> c]
  ELSE DecodeFields(data, off, n, 2, 0, c)

\* Encoder.Encode(items) of Set: a top-level slice is sent even when empty
EncodeItems(items) == <<GobSliceType, Len(items)>> \o items

\* Decoder.Decode(items) of Get, reading the bytes from the file offset on
DecodeItems(bs) ==
  IF Len(bs) < 2 \/ bs[1] # GobSliceType \/ Len(bs) < 2 + bs[2]
  THEN [ok |-> FALSE, items |-> << >>]
  ELSE [ok |-> TRUE, items |-> SubSeq(bs, 3, 2 + bs[2])]

(***************************************************************************)
(* os.File on a byte sequence.                                             *)
(***************************************************************************)
\* File.Write(b) at offset off: bytes before off stay, a gap is filled with
\* zeros, bytes after the written range stay
FileWrite(data, off, b) ==
  LET n == IF Len(data) > off + Len(b) THEN Len(data) ELSE off + Len(b)
  IN  [i \in 1..n |->
         IF i > off /\ i <= off + Len(b) THEN b[i - off]
         ELSE IF i <= Len(data) THEN data[i] ELSE 0]

\* the file a complete Set leaves: header, metadata block, payload
FileImage(c, items) ==
  PutUint32(Len(EncodeCache(c))) \o EncodeCache(c) \o EncodeItems(items)

(***************************************************************************)
(* The state.                                                              *)
(***************************************************************************)
VARIABLES
  now,      \* time.Now()
  file,     \* the backing file path.Join(Location, id): [exists, data]
  handle,   \* the Cache values the callers hold, one per handle variable
  lock,     \* Cache.lock of each handle: TRUE when locked
  th,       \* each caller's position in New, Set or Get and its locals
  saved,    \* history: what the last mutation of the file was
  opened,   \* history: the New call each handle came from, and its Sets since
  faults    \* history: the I/O operations that have failed so far

vars == <<now, file, handle, lock, th, saved, opened, faults>>

\* a handle variable that holds nil
NilCache == [live |-> FALSE, Identifier |-> << >>, Expire |-> FALSE, Expiry |-> 0]

NoFile == [exists |-> FALSE, data |-> << >>]

\* a caller that is in no call
Idle == [pc |-> "idle", h |-> "h1", items |-> << >>, c |-> NilCache, cb |-> << >>,
         hlen |-> 0, off |-> 0, fd |-> FALSE, err |-> FALSE, res |-> << >>,
         d |-> 0, at |-> 0, fault |-> FALSE, had |-> FALSE]

\* history values: nothing saved yet, a complete Set, a Set that changed the
\* file and has not (or not successfully) finished, a deletion on expiry
\* shrunk: the complete Set replaced a longer saved sequence; clean: its
\* Truncate succeeded
NoneSaved ==
  [kind |-> "none", c |-> NilCache, items |-> << >>, shrunk |-> FALSE, clean |-> TRUE]
Saved(c, items, shrunk, clean) ==
  [kind |-> "saved", c |-> c, items |-> items, shrunk |-> shrunk, clean |-> clean]
Partial == [NoneSaved EXCEPT !.kind = "partial"]
Deleted == [NoneSaved EXCEPT !.kind = "deleted"]

\* whether New was passed the duration 0, the time until which a duration
\* that is not 0 lasts, the Sets that returned nil since (2: two or more), how
\* the last Set since ended ("ok": it returned nil, "early": it failed before
\* it opened the file, "late": it failed after), and whether the handle was
\* expired at the last Set that returned nil
NotOpened == [zero |-> TRUE, until |-> 0, sets |-> 0, last |-> "none", stale |-> FALSE]

\* a variant of Expired: the cache already expires at its expiry time
ExpiredAtExpiry(c, t) == c.Expiry <= t /\ c.Expire

\* a variant of Expired: the Expire flag is not looked at
ExpiredWhateverExpire(c, t) == c.Expiry < t

\* c.Expiry.Before(time.Now()) && c.Expire
Expired(c, t) == c.Expiry < t /\ c.Expire

\* os.OpenFile(..., os.O_CREATE|os.O_RDWR, 0644): a missing file is created empty
OpenFile(f) == [exists |-> TRUE, data |-> f.data]

\* a variant of BufferAfterReadFrom: the buffer keeps the bytes written
BufferKept(cb, n) == cb

\* what bytes.Buffer holds after File.ReadFrom has written n of its bytes
BufferAfterReadFrom(cb, n) == SubSeq(cb, n + 1, Len(cb))

CanFail == faults < MaxFaults

InUse(h) == lock[h] \/ \E t \in Threads : th[t].pc # "idle" /\ th[t].h = h

\* a cache that an earlier run of the program saved at time 0
OldCache(expire) ==
  [live |-> TRUE, Identifier |-> <<97>>, Expire |-> expire, Expiry |-> 0]

\* files found on disk at the start, beside none and an empty one: too short
\* for a header, a header with nothing or too little after it, a zero header,
\* an undecodable metadata block, an undecodable payload, a cut payload
BrokenFiles ==
  { <<0>>, <<7>>, <<0, 0, 0>>,
    PutUint32(7), PutUint32(0), PutUint32(2) \o <<9, 9>>,
    PutUint32(3) \o <<GobCacheType, 1>>,
    PutUint32(1) \o <<GobCacheType>> \o EncodeItems(<<1>>),
    PutUint32(10) \o EncodeCache(OldCache(TRUE)) \o <<9, 9>>,
    PutUint32(10) \o EncodeCache(OldCache(TRUE)) \o <<GobSliceType, 2, 1>> }

Init ==
  /\ now = 0
  /\ \/ /\ file \in {NoFile, [exists |-> TRUE, data |-> << >>]}
        /\ saved = NoneSaved
     \/ /\ file \in {[exists |-> TRUE, data |-> d] : d \in BrokenFiles}
        /\ saved = NoneSaved
     \/ /\ file = [exists |-> TRUE, data |-> FileImage(OldCache(TRUE), <<1>>)]
        /\ saved = Saved(OldCache(TRUE), <<1>>, FALSE, TRUE)
  /\ handle = [h \in Handles |-> NilCache]
  /\ lock = [h \in Handles |-> FALSE]
  /\ th = [t \in Threads |-> Idle]
  /\ opened = [h \in Handles |-> NotOpened]
  /\ faults = 0

(***************************************************************************)
(* time passes                                                             *)
(***************************************************************************)
Tick ==
  /\ now < MaxTime
  /\ now' = now + 1
  /\ UNCHANGED <<file, handle, lock, th, saved, opened, faults>>

(***************************************************************************)
(* New(id, expiry), lines 28-69; its result is assigned to handle variable h*)
(***************************************************************************)
\* lines 29-35: the defaults
NewBegin(t, h, id, d) ==
  /\ th[t].pc = "idle"
  /\ ~InUse(h)
  /\ th' = [th EXCEPT ![t] = [Idle EXCEPT !.pc = "n_open", !.h = h, !.d = d,
              !.at = now,
              !.c = [live |-> TRUE, Identifier |-> id, Expire |-> (d # 0),
                     Expiry |-> now + d]]]
  /\ handle' = [handle EXCEPT ![h] = NilCache]
  /\ opened' = [opened EXCEPT ![h] = NotOpened]
  /\ UNCHANGED <<now, file, lock, saved, faults>>

\* a variant of NewOpen: the file is opened with os.O_TRUNC as well
NewOpenTruncates(t) ==
  /\ th[t].pc = "n_open"
  /\ file' = [exists |-> TRUE, data |-> << >>]
  /\ th' = [th EXCEPT ![t].pc = "n_hdr", ![t].fd = TRUE]
  /\ UNCHANGED <<now, handle, lock, saved, opened, faults>>

\* lines 37-41
NewOpen(t) ==
  /\ th[t].pc = "n_open"
  /\ file' = OpenFile(file)
  /\ th' = [th EXCEPT ![t].pc = "n_hdr", ![t].fd = TRUE]
  /\ UNCHANGED <<now, handle, lock, saved, opened, faults>>

NewOpenFail(t) ==
  /\ th[t].pc = "n_open"
  /\ CanFail
  /\ faults' = faults + 1
  /\ th' = [th EXCEPT ![t].pc = "n_ret", ![t].err = TRUE, ![t].fault = TRUE]
  /\ UNCHANGED <<now, file, handle, lock, saved, opened>>

\* lines 43-55: Read(hb), Uint32, Seek(4, 0)
NewReadHeader(t) ==
  /\ th[t].pc = "n_hdr"
  /\ LET r == FileRead(file.data, 0, 4) IN
       th' = [th EXCEPT ![t] =
                IF r.eof THEN [@ EXCEPT !.pc = "n_ret"]
                ELSE [@ EXCEPT !.pc = "n_meta", !.hlen = Uint32(r.buf), !.off = 4]]
  /\ UNCHANGED <<now, file, handle, lock, saved, opened, faults>>

\* a variant of NewReadMeta: the decoded metadata is checked and dropped
NewReadMetaKeepsDefaults(t) ==
  /\ th[t].pc = "n_meta"
  /\ LET eof == ReadEOF(file.data, th[t].off, th[t].hlen)
         dec == DecodeCache(file.data, th[t].off, th[t].hlen, th[t].c)
     IN  th' = [th EXCEPT ![t] =
                  IF eof THEN [@ EXCEPT !.pc = "n_ret"]
                  ELSE IF ~dec.ok THEN [@ EXCEPT !.pc = "n_ret", !.err = TRUE]
                  ELSE [@ EXCEPT !.pc = "n_ret"]]
  /\ UNCHANGED <<now, file, handle, lock, saved, opened, faults>>

\* lines 57-68: Read(cb), Decode(c)
NewReadMeta(t) ==
  /\ th[t].pc = "n_meta"
  /\ LET eof == ReadEOF(file.data, th[t].off, th[t].hlen)
         dec == DecodeCache(file.data, th[t].off, th[t].hlen, th[t].c)
     IN  th' = [th EXCEPT ![t] =
                  IF eof THEN [@ EXCEPT !.pc = "n_ret"]
                  ELSE IF ~dec.ok THEN [@ EXCEPT !.pc = "n_ret", !.err = TRUE]
                  ELSE [@ EXCEPT !.pc = "n_ret", !.c = dec.c]]
  /\ UNCHANGED <<now, file, handle, lock, saved, opened, faults>>

\* the return: the deferred Close, and the caller's assignment of the result
NewReturn(t) ==
  /\ th[t].pc = "n_ret"
  /\ handle' = [handle EXCEPT ![th[t].h] = IF th[t].err THEN NilCache ELSE th[t].c]
  /\ opened' = [opened EXCEPT ![th[t].h] =
                  IF th[t].err THEN NotOpened
                  ELSE [NotOpened EXCEPT
                          !.zero = (th[t].d = 0),
                          !.until = IF th[t].d = 0 THEN 0 ELSE th[t].at + th[t].d]]
  /\ th' = [th EXCEPT ![t] = Idle]
  /\ UNCHANGED <<now, file, lock, saved, faults>>

(***************************************************************************)
(* Cache.Set(items), lines 74-124                                          *)
(***************************************************************************)
\* the call: the caller waits for the lock
SetCall(t, h, items) ==
  /\ th[t].pc = "idle"
  /\ handle[h].live
  /\ th' = [th EXCEPT ![t] = [Idle EXCEPT !.pc = "s_lock", !.h = h, !.items = items]]
  /\ UNCHANGED <<now, file, handle, lock, saved, opened, faults>>

\* a variant of SetLock: one mutex of the package instead of one per Cache
SetLockOfPackage(t) ==
  /\ th[t].pc = "s_lock"
  /\ \A h \in Handles : ~lock[h]
  /\ lock' = [lock EXCEPT ![th[t].h] = TRUE]
  /\ th' = [th EXCEPT ![t].pc = "s_enc",
              ![t].had = (saved.kind = "saved" /\ Len(saved.items) > Len(th[t].items))]
  /\ UNCHANGED <<now, file, handle, saved, opened, faults>>

\* line 75: c.lock.Lock()
SetLock(t) ==
  /\ th[t].pc = "s_lock"
  /\ ~lock[th[t].h]
  /\ lock' = [lock EXCEPT ![th[t].h] = TRUE]
  /\ th' = [th EXCEPT ![t].pc = "s_enc",
              ![t].had = (saved.kind = "saved" /\ Len(saved.items) > Len(th[t].items))]
  /\ UNCHANGED <<now, file, handle, saved, opened, faults>>

\* a variant of SetEncode: Set renews the expiry time before it saves
SetEncodeRenews(t) ==
  /\ th[t].pc = "s_enc"
  /\ handle' = [handle EXCEPT ![th[t].h].Expiry = now + 1]
  /\ th' = [th EXCEPT ![t].pc = "s_open",
              ![t].cb = EncodeCache(handle'[th[t].h]),
              ![t].hlen = Len(EncodeCache(handle'[th[t].h]))]
  /\ UNCHANGED <<now, file, lock, saved, opened, faults>>

\* lines 78-89: Encode(c) into cb, the header value hl
SetEncode(t) ==
  /\ th[t].pc = "s_enc"
  /\ th' = [th EXCEPT ![t].pc = "s_open",
              ![t].cb = EncodeCache(handle[th[t].h]),
              ![t].hlen = Len(EncodeCache(handle[th[t].h]))]
  /\ UNCHANGED <<now, file, handle, lock, saved, opened, faults>>

\* lines 80-83: Encode(c) fails
SetEncodeFail(t) ==
  /\ th[t].pc = "s_enc"
  /\ CanFail
  /\ faults' = faults + 1
  /\ th' = [th EXCEPT ![t].pc = "s_ret", ![t].err = TRUE, ![t].fault = TRUE]
  /\ opened' = [opened EXCEPT ![th[t].h].last = "early"]
  /\ UNCHANGED <<now, file, handle, lock, saved>>

\* lines 91-95
SetOpen(t) ==
  /\ th[t].pc = "s_open"
  /\ file' = OpenFile(file)
  /\ th' = [th EXCEPT ![t].pc = "s_trunc", ![t].fd = TRUE, ![t].off = 0]
  /\ UNCHANGED <<now, handle, lock, saved, opened, faults>>

SetOpenFail(t) ==
  /\ th[t].pc = "s_open"
  /\ CanFail
  /\ faults' = faults + 1
  /\ th' = [th EXCEPT ![t].pc = "s_ret", ![t].err = TRUE, ![t].fault = TRUE]
  /\ opened' = [opened EXCEPT ![th[t].h].last = "early"]
  /\ UNCHANGED <<now, file, handle, lock, saved>>

\* a variant of SetTruncate: the file is truncated only once the new content
\* is written
SetTruncateLater(t) ==
  /\ th[t].pc = "s_trunc"
  /\ saved' = Partial
  /\ th' = [th EXCEPT ![t].pc = "s_hdr"]
  /\ UNCHANGED <<now, file, handle, lock, opened, faults>>

\* a variant of SetTruncate: the file is appended to instead of truncated
SetSeekEnd(t) ==
  /\ th[t].pc = "s_trunc"
  /\ saved' = Partial
  /\ th' = [th EXCEPT ![t].pc = "s_hdr", ![t].off = Len(file.data)]
  /\ UNCHANGED <<now, file, handle, lock, opened, faults>>

\* line 97: Truncate(0); its error is not looked at
SetTruncate(t) ==
  /\ th[t].pc = "s_trunc"
  /\ file' = [file EXCEPT !.data = << >>]
  /\ saved' = Partial
  /\ th' = [th EXCEPT ![t].pc = "s_hdr"]
  /\ UNCHANGED <<now, handle, lock, opened, faults>>

SetTruncateFail(t) ==
  /\ th[t].pc = "s_trunc"
  /\ CanFail
  /\ faults' = faults + 1
  /\ saved' = [Partial EXCEPT !.clean = FALSE]
  /\ th' = [th EXCEPT ![t].pc = "s_hdr", ![t].fault = TRUE]
  /\ UNCHANGED <<now, file, handle, lock, opened>>

\* lines 99-107: Write(hlb), Seek(4, 0)
SetWriteHeader(t) ==
  /\ th[t].pc = "s_hdr"
  /\ file' = [file EXCEPT !.data = FileWrite(@, th[t].off, PutUint32(th[t].hlen))]
  /\ th' = [th EXCEPT ![t].pc = "s_meta", ![t].off = 4]
  /\ UNCHANGED <<now, handle, lock, saved, opened, faults>>

\* Write(hlb) fails after k bytes
SetWriteHeaderFail(t) ==
  /\ th[t].pc = "s_hdr"
  /\ CanFail
  /\ faults' = faults + 1
  /\ \E k \in 0..3 :
       /\ file' = [file EXCEPT !.data =
                     FileWrite(@, th[t].off, SubSeq(PutUint32(th[t].hlen), 1, k))]
       /\ th' = [th EXCEPT ![t].pc = "s_ret", ![t].err = TRUE, ![t].fault = TRUE,
                           ![t].off = th[t].off + k]
  /\ opened' = [opened EXCEPT ![th[t].h].last = "late"]
  /\ UNCHANGED <<now, handle, lock, saved>>

\* lines 109-117: ReadFrom(cb), Seek(int64(cb.Len()), 1)
SetWriteMeta(t) ==
  /\ th[t].pc = "s_meta"
  /\ file' = [file EXCEPT !.data = FileWrite(@, th[t].off, th[t].cb)]
  /\ LET rest == BufferAfterReadFrom(th[t].cb, Len(th[t].cb)) IN
       th' = [th EXCEPT ![t].pc = "s_pay", ![t].cb = rest,
                        ![t].off = th[t].off + Len(th[t].cb) + Len(rest)]
  /\ UNCHANGED <<now, handle, lock, saved, opened, faults>>

\* ReadFrom(cb) fails after k bytes
SetWriteMetaFail(t) ==
  /\ th[t].pc = "s_meta"
  /\ CanFail
  /\ faults' = faults + 1
  /\ \E k \in 0..(Len(th[t].cb) - 1) :
       /\ file' = [file EXCEPT !.data = FileWrite(@, th[t].off, SubSeq(th[t].cb, 1, k))]
       /\ th' = [th EXCEPT ![t].pc = "s_ret", ![t].err = TRUE, ![t].fault = TRUE,
                           ![t].cb = BufferAfterReadFrom(th[t].cb, k),
                           ![t].off = th[t].off + k]
  /\ opened' = [opened EXCEPT ![th[t].h].last = "late"]
  /\ UNCHANGED <<now, handle, lock, saved>>

\* lines 119-123: Encode(items) into the file
SetWritePayload(t) ==
  /\ th[t].pc = "s_pay"
  /\ file' = [file EXCEPT !.data = FileWrite(@, th[t].off, EncodeItems(th[t].items))]
  /\ saved' = Saved(handle[th[t].h], th[t].items, th[t].had, ~th[t].fault)
  /\ opened' = [opened EXCEPT ![th[t].h].sets = Min(@ + 1, 2),
                              ![th[t].h].last = "ok",
                              ![th[t].h].stale = Expired(handle[th[t].h], now)]
  /\ th' = [th EXCEPT ![t].pc = "s_ret",
                      ![t].off = th[t].off + Len(EncodeItems(th[t].items))]
  /\ UNCHANGED <<now, handle, lock, faults>>

\* Encode(items) fails after k bytes were written
SetWritePayloadFail(t) ==
  /\ th[t].pc = "s_pay"
  /\ CanFail
  /\ faults' = faults + 1
  /\ \E k \in 0..(Len(EncodeItems(th[t].items)) - 1) :
       /\ file' = [file EXCEPT !.data =
                     FileWrite(@, th[t].off, SubSeq(EncodeItems(th[t].items), 1, k))]
       /\ th' = [th EXCEPT ![t].pc = "s_ret", ![t].err = TRUE, ![t].fault = TRUE,
                           ![t].off = th[t].off + k]
  /\ opened' = [opened EXCEPT ![th[t].h].last = "late"]
  /\ UNCHANGED <<now, handle, lock, saved>>

\* a variant of SetReturn: a Set that failed returns without Unlock
SetReturnKeepsLock(t) ==
  /\ th[t].pc = "s_ret"
  /\ lock' = [lock EXCEPT ![th[t].h] = th[t].err]
  /\ th' = [th EXCEPT ![t] = Idle]
  /\ UNCHANGED <<now, file, handle, saved, opened, faults>>

\* the return: the deferred Close and Unlock
SetReturn(t) ==
  /\ th[t].pc = "s_ret"
  /\ lock' = [lock EXCEPT ![th[t].h] = FALSE]
  /\ th' = [th EXCEPT ![t] = Idle]
  /\ UNCHANGED <<now, file, handle, saved, opened, faults>>

(***************************************************************************)
(* Cache.Get(), lines 131-170                                              *)
(***************************************************************************)
\* the call: the caller waits for the lock
GetCall(t, h) ==
  /\ th[t].pc = "idle"
  /\ handle[h].live
  /\ th' = [th EXCEPT ![t] = [Idle EXCEPT !.pc = "g_lock", !.h = h]]
  /\ UNCHANGED <<now, file, handle, lock, saved, opened, faults>>

\* a variant of GetLock: Get does not wait for the lock
GetNoLock(t) ==
  /\ th[t].pc = "g_lock"
  /\ lock' = [lock EXCEPT ![th[t].h] = TRUE]
  /\ th' = [th EXCEPT ![t].pc = "g_chk"]
  /\ UNCHANGED <<now, file, handle, saved, opened, faults>>

\* lines 132-135: c.lock.Lock()
GetLock(t) ==
  /\ th[t].pc = "g_lock"
  /\ ~lock[th[t].h]
  /\ lock' = [lock EXCEPT ![th[t].h] = TRUE]
  /\ th' = [th EXCEPT ![t].pc = "g_chk"]
  /\ UNCHANGED <<now, file, handle, saved, opened, faults>>

\* a variant of GetCheck: an expired Get returns nil and leaves the file
GetCheckKeepsFile(t) ==
  /\ th[t].pc = "g_chk"
  /\ IF Expired(handle[th[t].h], now)
     THEN /\ saved' = Deleted
          /\ th' = [th EXCEPT ![t].pc = "g_ret", ![t].err = TRUE, ![t].at = now,
                              ![t].had = (saved.kind = "saved")]
     ELSE /\ th' = [th EXCEPT ![t].pc = "g_open", ![t].at = now,
                              ![t].had = (saved.kind = "saved")]
          /\ UNCHANGED saved
  /\ UNCHANGED <<now, file, handle, lock, opened, faults>>

\* lines 137-140: the expiry check, and os.Remove when it has passed
GetCheck(t) ==
  /\ th[t].pc = "g_chk"
  /\ IF Expired(handle[th[t].h], now)
     THEN /\ file' = NoFile
          /\ saved' = Deleted
          /\ th' = [th EXCEPT ![t].pc = "g_ret", ![t].err = TRUE, ![t].at = now,
                              ![t].had = (saved.kind = "saved")]
     ELSE /\ th' = [th EXCEPT ![t].pc = "g_open", ![t].at = now,
                              ![t].had = (saved.kind = "saved")]
          /\ UNCHANGED <<file, saved>>
  /\ UNCHANGED <<now, handle, lock, opened, faults>>

\* lines 142-146
GetOpen(t) ==
  /\ th[t].pc = "g_open"
  /\ file' = OpenFile(file)
  /\ th' = [th EXCEPT ![t].pc = "g_hdr", ![t].fd = TRUE, ![t].off = 0]
  /\ UNCHANGED <<now, handle, lock, saved, opened, faults>>

GetOpenFail(t) ==
  /\ th[t].pc = "g_open"
  /\ CanFail
  /\ faults' = faults + 1
  /\ th' = [th EXCEPT ![t].pc = "g_ret", ![t].err = TRUE, ![t].fault = TRUE]
  /\ UNCHANGED <<now, file, handle, lock, saved, opened>>

\* lines 148-163: Read(hb), Seek(4, 0), Seek(int64(offset), 1)
GetReadHeader(t) ==
  /\ th[t].pc = "g_hdr"
  /\ LET r == FileRead(file.data, th[t].off, 4) IN
       th' = [th EXCEPT ![t] =
                IF r.eof THEN [@ EXCEPT !.pc = "g_ret", !.err = TRUE]
                ELSE [@ EXCEPT !.pc = "g_dec", !.hlen = Uint32(r.buf),
                               !.off = 4 + Uint32(r.buf)]]
  /\ UNCHANGED <<now, file, handle, lock, saved, opened, faults>>

\* a variant of GetDecode: the error of Decode is not looked at
GetDecodeUnchecked(t) ==
  /\ th[t].pc = "g_dec"
  /\ LET dec == DecodeItems(SubSeq(file.data, th[t].off + 1, Len(file.data))) IN
       th' = [th EXCEPT ![t].pc = "g_ret", ![t].res = dec.items]
  /\ UNCHANGED <<now, file, handle, lock, saved, opened, faults>>

\* lines 165-169: Decode(items) from the file offset on
GetDecode(t) ==
  /\ th[t].pc = "g_dec"
  /\ LET dec == DecodeItems(SubSeq(file.data, th[t].off + 1, Len(file.data))) IN
       th' = [th EXCEPT ![t] =
                IF dec.ok THEN [@ EXCEPT !.pc = "g_ret", !.res = dec.items]
                ELSE [@ EXCEPT !.pc = "g_ret", !.err = TRUE]]
  /\ UNCHANGED <<now, file, handle, lock, saved, opened, faults>>

\* a variant of GetReturn: a Get that returns nil returns without Unlock
GetReturnKeepsLock(t) ==
  /\ th[t].pc = "g_ret"
  /\ lock' = [lock EXCEPT ![th[t].h] = th[t].err]
  /\ th' = [th EXCEPT ![t] = Idle]
  /\ UNCHANGED <<now, file, handle, saved, opened, faults>>

\* the return: the deferred Close and Unlock
GetReturn(t) ==
  /\ th[t].pc = "g_ret"
  /\ lock' = [lock EXCEPT ![th[t].h] = FALSE]
  /\ th' = [th EXCEPT ![t] = Idle]
  /\ UNCHANGED <<now, file, handle, saved, opened, faults>>

(***************************************************************************)
(* The specifications.                                                     *)
(***************************************************************************)
\* a step of New by one of the callers T, its result going to one of the handle
\* variables H, in which no I/O operation fails
NewSteps(T, H) ==
  \/ \E t \in T, h \in H, id \in Ids, d \in Durations : NewBegin(t, h, id, d)
  \/ \E t \in T : NewOpen(t)
  \/ \E t \in T : NewReadHeader(t)
  \/ \E t \in T : NewReadMeta(t)
  \/ \E t \in T : NewReturn(t)

\* the same of Set
SetSteps(T, H) ==
  \/ \E t \in T, h \in H, items \in ItemSeqs : SetCall(t, h, items)
  \/ \E t \in T : SetLock(t)
  \/ \E t \in T : SetEncode(t)
  \/ \E t \in T : SetOpen(t)
  \/ \E t \in T : SetTruncate(t)
  \/ \E t \in T : SetWriteHeader(t)
  \/ \E t \in T : SetWriteMeta(t)
  \/ \E t \in T : SetWritePayload(t)
  \/ \E t \in T : SetReturn(t)

\* the same of Get
GetSteps(T, H) ==
  \/ \E t \in T, h \in H : GetCall(t, h)
  \/ \E t \in T : GetLock(t)
  \/ \E t \in T : GetCheck(t)
  \/ \E t \in T : GetOpen(t)
  \/ \E t \in T : GetReadHeader(t)
  \/ \E t \in T : GetDecode(t)
  \/ \E t \in T : GetReturn(t)

\* a step of one of the callers T on one of the handle variables H in which
\* no I/O operation fails
Calls(T, H) == Tick \/ NewSteps(T, H) \/ SetSteps(T, H) \/ GetSteps(T, H)

\* a step in which an I/O operation fails
Faults(T) ==
  \/ \E t \in T : NewOpenFail(t)
  \/ \E t \in T : SetEncodeFail(t)
  \/ \E t \in T : SetOpenFail(t)
  \/ \E t \in T : SetTruncateFail(t)
  \/ \E t \in T : SetWriteHeaderFail(t)
  \/ \E t \in T : SetWriteMetaFail(t)
  \/ \E t \in T : SetWritePayloadFail(t)
  \/ \E t \in T : GetOpenFail(t)

\* one caller and one handle variable (a later New is assigned to it again),
\* with I/O failures
Next == Calls({"t1"}, {"h1"}) \/ Faults({"t1"})

Spec == Init /\ [][Next]_vars

\* two callers that share one handle, without I/O failures
NextShared == Calls(Threads, {"h1"})

SpecShared == Init /\ [][NextShared]_vars

\* two handle variables for the one identifier, each with its own caller: one
\* opens and saves through h1, the other opens and loads through h2; no time
\* passes and no I/O operation fails
NextHandles ==
  \/ NewSteps({"t1"}, {"h1"}) \/ SetSteps({"t1"}, {"h1"})
  \/ NewSteps({"t2"}, {"h2"}) \/ GetSteps({"t2"}, {"h2"})

\* one caller that opens and loads through two handle variables, without I/O
\* failures
NextLoads == Tick \/ NewSteps({"t1"}, Handles) \/ GetSteps({"t1"}, Handles)

SpecLoads == Init /\ [][NextLoads]_vars

\* a step of the caller inside a call, other than Lock: each I/O operation
\* completes or fails
Progress(t) ==
  \/ NewOpen(t) \/ NewOpenFail(t) \/ NewReadHeader(t) \/ NewReadMeta(t) \/ NewReturn(t)
  \/ SetEncode(t) \/ SetEncodeFail(t) \/ SetOpen(t) \/ SetOpenFail(t)
  \/ SetTruncate(t) \/ SetTruncateFail(t) \/ SetWriteHeader(t) \/ SetWriteHeaderFail(t)
  \/ SetWriteMeta(t) \/ SetWriteMetaFail(t) \/ SetWritePayload(t)
  \/ SetWritePayloadFail(t) \/ SetReturn(t)
  \/ GetCheck(t) \/ GetOpen(t) \/ GetOpenFail(t) \/ GetReadHeader(t) \/ GetDecode(t)
  \/ GetReturn(t)

\* two callers of Set and Get that share the handle one of them opens, with
\* I/O failures; no time passes
NextFair ==
  \/ NewSteps({"t1"}, {"h1"})
  \/ SetSteps(Threads, {"h1"})
  \/ GetSteps(Threads, {"h1"})
  \/ Faults(Threads)

\* the scheduler runs every caller that can take a step, and sync.Mutex hands
\* the lock to a caller that keeps waiting for it (its starvation mode)
SpecFair ==
  /\ Init /\ [][NextFair]_vars
  /\ \A t \in Threads : WF_vars(Progress(t))
  /\ \A t \in Threads : SF_vars(SetLock(t) \/ GetLock(t))

\* one caller that opens both handle variables, saves through h1 and loads
\* through h2, without I/O failures
NextReopen ==
  \/ Tick
  \/ NewSteps({"t1"}, Handles)
  \/ SetSteps({"t1"}, {"h1"})
  \/ GetSteps({"t1"}, {"h2"})

SpecReopen == Init /\ [][NextReopen]_vars

\* the program starts with no file in the storage directory
InitHandles == Init /\ file = NoFile

SpecHandles == InitHandles /\ [][NextHandles]_vars

(***************************************************************************)
(* The claims.  A call's result is read in the state before its return     *)
(* step: err is a nil result (New, Get) or a non-nil error (Set).          *)
(***************************************************************************)
\* the handle was not expired when Get made its check
FreshAtCheck(t) ==
  ~(handle[th[t].h].Expire /\ handle[th[t].h].Expiry < th[t].at)

\* Get is about to return, its own file open did not fail, and when it made
\* its check the last change of the file was a Set that returned nil
GetAfterSet(t) ==
  /\ th[t].pc = "g_ret"
  /\ ~th[t].fault
  /\ th[t].had

\* Get returns the sequence of that Set
ReturnsSaved(t) ==
  /\ ~th[t].err
  /\ saved.kind = "saved"
  /\ saved.c = handle[th[t].h]
  /\ th[t].res = saved.items

\* C1 as claimed: New(id, d), Set(items), Get returns items when d is 0 or the
\* duration d has not elapsed since New, and no I/O step fails.
C1_RoundTripAsClaimed ==
  \A t \in Threads :
    ( /\ GetAfterSet(t)
      /\ opened[th[t].h].sets = 1
      /\ (opened[th[t].h].zero \/ th[t].at <= opened[th[t].h].until) )
    => ReturnsSaved(t)

\* C1 as amended: New(id, d), Set(items), Get returns items when the handle, with
\* the metadata New loaded, is not expired at the Get, and no I/O step fails.
C1_RoundTrip ==
  \A t \in Threads :
    (GetAfterSet(t) /\ opened[th[t].h].sets = 1 /\ FreshAtCheck(t))
    => ReturnsSaved(t)

C1_Witness ==
  \E t \in Threads :
    /\ GetAfterSet(t) /\ opened[th[t].h].sets = 1 /\ FreshAtCheck(t)
    /\ handle[th[t].h].Expire
    /\ Len(saved.items) > 0
    /\ ReturnsSaved(t)

\* C2: after two or more Sets that returned nil on one handle that is not
\* expired, Get returns exactly the sequence of the last one, also when it is
\* shorter than the one it replaced.
C2_OverwriteNotMerge ==
  \A t \in Threads :
    (GetAfterSet(t) /\ opened[th[t].h].sets = 2 /\ FreshAtCheck(t))
    => ReturnsSaved(t)

C2_Witness ==
  \E t \in Threads :
    /\ GetAfterSet(t) /\ opened[th[t].h].sets = 2 /\ FreshAtCheck(t)
    /\ saved.shrunk
    /\ ReturnsSaved(t)

\* C3 as claimed: a New on a file that a Set saved returns a handle whose
\* identifier, expire flag and expiry time are the saved ones, whatever the
\* duration passed.
C3_PersistedMetadataWins ==
  \A t \in Threads :
    (th[t].pc = "n_ret" /\ ~th[t].fault /\ saved.kind = "saved")
    => (~th[t].err /\ th[t].c = saved.c)

\* C4: the expiry check of Get removes the file and makes Get return nil when
\* the handle expires and its expiry time is before now, and leaves the file
\* as it is otherwise.
C4_ExpiryDestructiveRead ==
  [][ \A t \in Threads :
        (th[t].pc = "g_chk" /\ th'[t].pc # "g_chk") =>
          IF handle[th[t].h].Expire /\ handle[th[t].h].Expiry < now
          THEN ~file'.exists /\ th'[t].pc = "g_ret" /\ th'[t].err
          ELSE file' = file /\ th'[t].pc = "g_open" ]_vars

\* an expired Get has removed a file that held a saved payload
C4_Witness ==
  \E t \in Threads :
    /\ th[t].pc = "g_ret" /\ th[t].had /\ ~FreshAtCheck(t)
    /\ ~file.exists /\ th[t].err

\* C5: after a Get has removed the file on expiry, and with no Set since, a New
\* succeeds with the defaults of its own call, and a Get returns nil.
C5_FreshAfterExpiry ==
  \A t \in Threads :
    /\ (th[t].pc = "n_ret" /\ ~th[t].fault /\ saved.kind = "deleted")
       => /\ ~th[t].err
          /\ th[t].c.live /\ th[t].c.Identifier \in Ids
          /\ th[t].c.Expire = (th[t].d # 0)
          /\ th[t].c.Expiry = th[t].at + th[t].d
    /\ (th[t].pc = "g_ret" /\ saved.kind = "deleted") => th[t].err

C5_Witness ==
  \E t \in Threads :
    /\ th[t].pc = "n_ret" /\ saved.kind = "deleted" /\ ~th[t].err
    /\ th[t].d = 0 /\ ~th[t].c.Expire /\ file.exists /\ file.data = << >>

\* C6 as claimed: after every Set that returned nil the file is exactly the
\* header, the metadata block and the payload, with nothing else.
C6_FileLayout ==
  saved.kind = "saved" => (file.exists /\ file.data = FileImage(saved.c, saved.items))

\* the layout holds after every Set whose Truncate did not fail
LayoutWhenTruncated ==
  (saved.kind = "saved" /\ saved.clean)
  => (file.exists /\ file.data = FileImage(saved.c, saved.items))

\* the bytes from the offset on start with the encoding of an item sequence
HoldsPayload(data, off) ==
  \E k \in (off + 2)..Len(data) :
    LET items == SubSeq(data, off + 3, k)
    IN  SubSeq(data, off + 1, k) = EncodeItems(items)

\* the file has a header whose length leads to the encoding of an item sequence
Loadable(data) ==
  /\ Len(data) >= 4
  /\ HoldsPayload(data, 4 + Uint32(SubSeq(data, 1, 4)))

GetStep(t) ==
  GetCheck(t) \/ GetOpen(t) \/ GetReadHeader(t) \/ GetDecode(t) \/ GetReturn(t)

\* the caller holds the lock of h
Holds(t, h) ==
  /\ th[t].h = h
  /\ th[t].pc \in {"s_enc", "s_open", "s_trunc", "s_hdr", "s_meta", "s_pay", "s_ret",
                   "g_chk", "g_open", "g_hdr", "g_dec", "g_ret"}

\* C8: a Get whose file cannot be opened, is missing, is empty, is shorter
\* than a header, has a header that leads past the end or has an undecodable
\* payload returns nil; and a Get that has the lock can always take its next step.
C8_GetAbsentOnBadFile ==
  \A t \in Threads :
    /\ (th[t].pc = "g_ret" /\ (th[t].fault \/ ~Loadable(file.data))) => th[t].err
    /\ th[t].pc \in {"g_chk", "g_open", "g_hdr", "g_dec", "g_ret"} => ENABLED GetStep(t)

\* a header that leads past the end of the file
C8_Witness ==
  \E t \in Threads :
    /\ th[t].pc = "g_ret" /\ ~th[t].fault /\ FreshAtCheck(t)
    /\ Len(file.data) >= 4
    /\ 4 + Uint32(SubSeq(file.data, 1, 4)) > Len(file.data)
    /\ th[t].err

\* the caches a metadata block can hold
Caches ==
  [live : {TRUE}, Identifier : Ids, Expire : BOOLEAN, Expiry : 0..(MaxTime + 1)]

\* the L bytes after the header are the encoding of a cache
HoldsMetadata(data) ==
  LET L == Uint32(SubSeq(data, 1, 4)) IN
    /\ L > 0
    /\ Len(data) >= 4 + L
    /\ \E c \in Caches : SubSeq(data, 5, 4 + L) = EncodeCache(c)

\* C9 as claimed: New fails on a file with a 4-byte header and no valid
\* metadata block of the header's length after it.
C9_OpenFailsOnCorruptMetadata ==
  \A t \in Threads :
    ( /\ th[t].pc = "n_ret" /\ ~th[t].fault
      /\ Len(file.data) >= 4 /\ ~HoldsMetadata(file.data) )
    => th[t].err

\* C10 as claimed: New on a file that is missing, empty or shorter than a
\* header succeeds with the defaults of its call, and a first Get with no Set
\* before it returns nil or an empty sequence.
C10_EmptyFileBootstrap ==
  \A t \in Threads :
    /\ (th[t].pc = "n_ret" /\ ~th[t].fault /\ Len(file.data) < 4)
       => /\ ~th[t].err
          /\ th[t].c.live /\ th[t].c.Identifier \in Ids
          /\ th[t].c.Expire = (th[t].d # 0)
          /\ th[t].c.Expiry = th[t].at + th[t].d
    /\ (th[t].pc = "g_ret" /\ Len(file.data) < 4) => (th[t].err \/ th[t].res = << >>)

\* C7: of the callers of Set and Get on one handle at most one is between Lock
\* and Unlock, and a Get that returns a sequence returns the whole sequence of
\* the last Set: it reads no file that a Set has truncated and not yet
\* finished writing.
C7_MutualExclusion ==
  /\ \A h \in Handles : Cardinality({t \in Threads : Holds(t, h)}) <= 1
  /\ \A t \in Threads :
       (th[t].pc = "g_ret" /\ ~th[t].err)
       => (saved.kind = "saved" /\ th[t].res = saved.items)

\* a Get waits for the lock while a Set is between its truncation and the end
\* of its payload write
C7_Witness ==
  \E t, u \in Threads :
    /\ th[t].pc = "g_lock" /\ th[u].h = th[t].h
    /\ th[u].pc \in {"s_hdr", "s_meta", "s_pay"}
    /\ lock[th[t].h]

\* C11 as claimed: Set returns an error exactly when one of its steps failed:
\* the encoding of the metadata, the open, the truncation, the header write,
\* the metadata write or the payload write.
C11_SetErrorOnAnyFailure ==
  \A t \in Threads : th[t].pc = "s_ret" => (th[t].err <=> th[t].fault)

\* C12: the file is removed only by the expiry check of a Get on a handle whose
\* Expire is set and whose Expiry is before now; no step of New or Set, and no
\* Get on a handle whose Expire is not set, removes it.
C12_DeletionOnlyOnExpiry ==
  [][ (file.exists /\ ~file'.exists) =>
        \E t \in Threads :
          /\ th[t].pc = "g_chk" /\ th'[t].pc = "g_ret"
          /\ handle[th[t].h].Expire
          /\ handle[th[t].h].Expiry < now ]_vars

\* a Get on an expired handle has removed the file, and the caller is back
C12_Witness ==
  /\ saved.kind = "deleted" /\ ~file.exists
  /\ \A t \in Threads : th[t].pc = "idle"
  /\ \E h \in Handles : handle[h].live /\ handle[h].Expire /\ handle[h].Expiry < now

\* C13 as claimed: a Get whose expiry check does not fire leaves the file as it
\* was, in existence and in contents, whatever it returns.
C13_GetNoSideEffect ==
  [][ \A t \in Threads :
        ( /\ th'[t] # th[t]
          /\ \/ th[t].pc \in {"g_open", "g_hdr", "g_dec", "g_ret"}
             \/ th[t].pc = "g_chk" /\ ~Expired(handle[th[t].h], now) )
        => file' = file ]_vars

\* the caller takes a step of New
NewStepOf(t) ==
  /\ th'[t] # th[t]
  /\ \/ th[t].pc \in {"n_open", "n_hdr", "n_meta", "n_ret"}
     \/ th[t].pc = "idle" /\ th'[t].pc = "n_open"

\* C14: New at most creates the file empty: no step of it changes the contents
\* or removes the file, and none changes another handle variable than the one
\* it is assigned to; so a Get on a handle that is not expired, with no Set
\* through that handle since its New, returns the sequence saved before.
C14_OpenNoSideEffect ==
  /\ [][ \A t \in Threads :
           NewStepOf(t) =>
             /\ file'.data = file.data
             /\ file.exists => file'.exists
             /\ \A h \in Handles \ {th[t].h, th'[t].h} : handle'[h] = handle[h] ]_vars
  /\ [](\A t \in Threads :
          (GetAfterSet(t) /\ opened[th[t].h].sets = 0 /\ FreshAtCheck(t))
          => (~th[t].err /\ saved.kind = "saved" /\ th[t].res = saved.items))

\* a handle from New(id, 0) that holds the saved Expire, so one opened after the
\* save, returns the saved sequence
C14_Witness ==
  \E t \in Threads :
    /\ GetAfterSet(t) /\ opened[th[t].h].sets = 0 /\ FreshAtCheck(t)
    /\ opened[th[t].h].zero /\ handle[th[t].h].Expire
    /\ handle["h1"].live
    /\ ~th[t].err /\ th[t].res = saved.items /\ Len(th[t].res) > 0

\* C15: a Get after a Set that failed once it had truncated the file returns
\* nil; a Get after a Set that failed before it opened the file still returns
\* the sequence of the Set that returned nil before it.
C15_NoRollback ==
  \A t \in Threads :
    th[t].pc = "g_ret" =>
      /\ ( /\ opened[th[t].h].last = "late"
           /\ saved.kind = "partial" /\ saved.clean )
         => th[t].err
      /\ ( /\ opened[th[t].h].last = "early" /\ opened[th[t].h].sets >= 1
           /\ GetAfterSet(t) /\ FreshAtCheck(t) )
         => ReturnsSaved(t)

\* the Get after a Set that failed at its payload write, the header and the
\* metadata block being written
C15_Witness ==
  \E t \in Threads :
    /\ th[t].pc = "g_ret" /\ ~th[t].fault
    /\ opened[th[t].h].last = "late" /\ opened[th[t].h].sets >= 1
    /\ saved.kind = "partial" /\ saved.clean
    /\ Len(file.data) > 4
    /\ th[t].err

\* the Get after a Set that failed before it opened the file
C15_WitnessEarly ==
  \E t \in Threads :
    /\ opened[th[t].h].last = "early" /\ opened[th[t].h].sets >= 1
    /\ GetAfterSet(t) /\ FreshAtCheck(t)
    /\ ReturnsSaved(t) /\ Len(th[t].res) > 0

\* C16: a caller that is in no call has no file open, and a lock is held only
\* by a caller that is between Lock and the return of its Set or Get.
C16_ResourcesScoped ==
  /\ \A t \in Threads : th[t].pc = "idle" => ~th[t].fd
  /\ \A h \in Handles : lock[h] => \E t \in Threads : Holds(t, h)

\* the caller is back from a call in which an I/O operation failed, or from a
\* Get that found the handle expired, and the lock is free
C16_Witness ==
  /\ \A t \in Threads : th[t].pc = "idle"
  /\ faults > 0 \/ saved.kind = "deleted"
  /\ handle["h1"].live /\ ~lock["h1"]

\* C17: the lock of one handle never keeps a call through the other handle
\* from going on: a caller that waits for a lock which no caller holds can
\* take it, whatever the state of the other handle's lock; so a Get through
\* one handle runs between the steps of a Set through the other (C17_Witness).
C17_NoCrossHandleProtection ==
  \A t \in Threads :
    ( /\ th[t].pc \in {"s_lock", "g_lock"}
      /\ ~\E u \in Threads : Holds(u, th[t].h) )
    => ENABLED (SetLock(t) \/ GetLock(t))

\* a Get through h2, not expired and started when a complete snapshot was
\* saved, returns nil while the Set through h1 is between its truncation and
\* the end of its payload write, each caller holding the lock of its handle
C17_Witness ==
  \E t, u \in Threads :
    /\ th[t].pc = "g_ret" /\ th[t].h = "h2" /\ th[t].had /\ FreshAtCheck(t)
    /\ th[t].err
    /\ th[u].h = "h1" /\ th[u].pc \in {"s_hdr", "s_meta", "s_pay"}
    /\ lock["h1"] /\ lock["h2"]

\* a New through h2 returns the defaults of its call, not the saved metadata,
\* while the Set through h1 is between its truncation and its metadata write
C17_WitnessOpen ==
  \E t, u \in Threads :
    /\ th[t].pc = "n_ret" /\ th[t].h = "h2" /\ ~th[t].err
    /\ th[t].d = 0 /\ ~th[t].c.Expire
    /\ th[u].h = "h1" /\ th[u].pc \in {"s_hdr", "s_meta"}
    /\ handle["h1"].Expire /\ opened["h1"].sets >= 1

\* C18: only New changes a handle; Set and Get leave its Identifier, Expire and
\* Expiry as they are, so an expired handle stays expired, and every Get on an
\* expired handle returns nil and leaves no file, also after a Set that
\* returned nil.
C18_ExpiryAbsorbing ==
  /\ [][ \A h \in Handles :
           handle'[h] # handle[h] =>
             \E t \in Threads : NewStepOf(t) /\ h \in {th[t].h, th'[t].h} ]_vars
  /\ [][ \A h \in Handles :
           (Expired(handle[h], now) /\ handle'[h] = handle[h])
           => Expired(handle'[h], now') ]_vars
  /\ [](\A t \in Threads :
          (th[t].pc = "g_ret" /\ ~FreshAtCheck(t)) => (th[t].err /\ ~file.exists))

\* the Get on an expired handle directly after that handle's Set returned nil
C18_Witness ==
  \E t \in Threads :
    /\ th[t].pc = "g_ret" /\ ~FreshAtCheck(t) /\ th[t].had
    /\ opened[th[t].h].last = "ok" /\ opened[th[t].h].stale
    /\ th[t].err /\ ~file.exists

\* C19: after a Set through the expired handle h1 has returned nil, a New of
\* the identifier, whatever its duration, returns the saved metadata, so a
\* handle that is expired, and a Get on h2 holding that metadata removes the
\* file and returns nil.
C19_ExpiredSetPersists ==
  \A t \in Threads :
    /\ ( /\ th[t].pc = "n_ret" /\ th[t].h = "h2"
         /\ opened["h1"].stale /\ saved.kind = "saved" )
       => /\ ~th[t].err
          /\ th[t].c = saved.c
          /\ Expired(th[t].c, now)
    /\ ( /\ th[t].pc = "g_ret" /\ th[t].h = "h2"
         /\ opened["h1"].stale /\ handle["h2"] = handle["h1"] )
       => (th[t].err /\ ~file.exists)

\* the first Get on a handle from New(id, 0) that loaded the expired metadata
\* when the Set's snapshot was in the file
C19_Witness ==
  \E t \in Threads :
    /\ th[t].pc = "g_ret" /\ th[t].h = "h2" /\ th[t].had
    /\ opened["h1"].stale /\ handle["h2"] = handle["h1"]
    /\ opened["h2"].zero
    /\ th[t].err /\ ~file.exists

\* C20: every caller that is in a call comes back from it, and every lock that
\* is held is released.
C20_NoDeadlock ==
  /\ \A t \in Threads : (th[t].pc # "idle") ~> (th[t].pc = "idle")
  /\ \A h \in Handles : lock[h] ~> ~lock[h]

\* one caller waits for the lock that the other holds
C20_Witness ==
  \E t, u \in Threads :
    /\ th[t].pc \in {"s_lock", "g_lock"}
    /\ th[u].h = th[t].h /\ Holds(u, th[t].h)
    /\ lock[th[t].h]
=============================================================================
